---- MODULE Spec2Model ----
(***************************************************************************)
(* Model of src/src/youtube/mod.rs: the page decoder                       *)
(* (YouTubeChatPageProcessor::new), the pagination step (cont/next_page),  *)
(* the message iterator (Iterator::next) and the stream orchestrator       *)
(* (stream).                                                               *)
(*                                                                         *)
(* Option<T> is modelled as a sequence of length 0 (None) or 1 (Some(x)).  *)
(***************************************************************************)
EXTENDS Integers, Sequences, FiniteSets, TLC

\* ------------------------------------------------------------------ bounds
\* Longest action list of a scripted page.
MaxActions == 2
\* Largest number of page fetches one session issues (the first one included);
\* the push channel delivers one event for each fetch after the first.
MaxFetches == 3

\* ------------------------------------------------------------------ Option
None == <<>>
Some(x) == <<x>>
IsSome(o) == o # <<>>
IsNone(o) == o = <<>>
Unwrap(o) == o[1]
Opt(S) == {None} \cup {Some(x) : x \in S}

\* ------------------------------------------------------------------ raw data
\* Opaque continuation tokens and push topics issued by the server.
Tokens == {"k1", "k2"}
Topics == {"A", "B"}

\* A text message renderer: optional message (runs), optional author name,
\* the author's channel id, the author photo's thumbnails and the timestamp.
Renderer(msg, name, thumbs) ==
    [message |-> msg, author_name |-> name, author_external_channel_id |-> "UC",
     thumbnails |-> thumbs, timestamp_usec |-> 1234567]

\* The item of an add-chat-item action: optional plain renderer, optional paid
\* renderer (given by the text renderer it wraps).
Item(text, paid) == [text |-> text, paid |-> paid]

\* An action: optional replay wrapper (inner add-items and one video offset),
\* optional direct add-item.
AddAction(item) == [replay |-> None, add |-> Some(item)]
ReplayAction(inner, off) ==
    [replay |-> Some([actions |-> inner, video_offset_time_msec |-> off]), add |-> None]
OtherAction == [replay |-> None, add |-> None]

\* One element of `continuations`: the three optional descriptors.
Continuation(inv, timed, replay) ==
    [invalidation_continuation_data |-> inv,
     timed_continuation_data |-> timed,
     live_chat_replay_continuation_data |-> replay]

Invalidations == [continuation : Tokens, topic : Topics]

\* A response: optional continuation contents, holding the continuations
\* (only element 0 is ever read, so lists of length 0 and 1 are enumerated)
\* and the optional action list.
Response(conts, actions) ==
    [continuation_contents |-> Some([continuations |-> conts, actions |-> actions])]
EmptyResponse == [continuation_contents |-> None]

\* ------------------------------------------------------------------ results
Ok(v) == [tag |-> "Ok", val |-> Some(v), err |-> ""]
Err(e) == [tag |-> "Err", val |-> None, err |-> e]
Panic == [tag |-> "Panic", val |-> None, err |-> ""]
PanicAt(e) == [tag |-> "Panic", val |-> None, err |-> e]

\* ------------------------------------------------------------------ decoder
\* continuations[0] of a response whose continuation contents are present.
Cont0(response) == Unwrap(response.continuation_contents).continuations[1]

HasCont0(response) ==
    /\ IsSome(response.continuation_contents)
    /\ Len(Unwrap(response.continuation_contents).continuations) >= 1

\* LiveToken, with the timed continuation preferred.
LiveTokenPreferTimed(c) ==
    IF IsSome(c.timed_continuation_data)
    THEN Some(Unwrap(c.timed_continuation_data))
    ELSE IF IsSome(c.invalidation_continuation_data)
         THEN Some(Unwrap(c.invalidation_continuation_data).continuation)
         ELSE None

\* The live branch of the token selection: invalidation, or else timed.
LiveToken(c) ==
    IF IsSome(c.invalidation_continuation_data)
    THEN Some(Unwrap(c.invalidation_continuation_data).continuation)
    ELSE IF IsSome(c.timed_continuation_data)
         THEN Some(Unwrap(c.timed_continuation_data))
         ELSE None

\* The replay branch of the token selection.
ReplayToken(c) == c.live_chat_replay_continuation_data

\* The stored push topic.
SignalerTopic(c, live) ==
    IF live
    THEN IF IsSome(c.invalidation_continuation_data)
         THEN Some(Unwrap(c.invalidation_continuation_data).topic)
         ELSE None
    ELSE None

\* Queue, with the live policy (unwrap_or_default) applied in both modes.
QueueAlwaysDefault(actions, live) ==
    IF IsSome(actions) THEN Ok(Unwrap(actions)) ELSE Ok(<<>>)

\* The queue built from the optional action list: Ok(list) or Err.
Queue(actions, live) ==
    IF live
    THEN IF IsSome(actions) THEN Ok(Unwrap(actions)) ELSE Ok(<<>>)
    ELSE IF IsSome(actions) THEN Ok(Unwrap(actions)) ELSE Err("EndOfContinuation")

\* YouTubeChatPageProcessor::new(response, request_options).
New(response, live) ==
    IF IsNone(response.continuation_contents)
    THEN Err("MissingContinuationContents")
    ELSE IF ~HasCont0(response)
    THEN Panic
    ELSE LET c == Cont0(response)
             q == Queue(Unwrap(response.continuation_contents).actions, live)
         IN IF q.tag = "Err"
            THEN Err(q.err)
            ELSE Ok([actions |-> Unwrap(q.val),
                     locked |-> FALSE,
                     continuation_token |-> IF live THEN LiveToken(c) ELSE ReplayToken(c),
                     signaler_topic |-> SignalerTopic(c, live)])

\* ------------------------------------------------------------------ iterator
\* The eligibility filter applied to the item of an add-chat-item action.
Eligible(item) ==
    IF IsSome(item.text)
    THEN IsSome(Unwrap(item.text).message)
    ELSE IF IsSome(item.paid)
         THEN IsSome(Unwrap(item.paid).message)
         ELSE FALSE

RECURSIVE LastEligible(_)
LastEligible(inner) ==
    IF inner = <<>>
    THEN None
    ELSE LET later == LastEligible(Tail(inner))
         IN IF IsSome(later)
            THEN later
            ELSE IF IsSome(Head(inner).add) /\ Eligible(Unwrap(Head(inner).add))
                 THEN Some(Unwrap(Head(inner).add))
                 ELSE None

\* The loop over the inner actions of a replay wrapper: the first inner
\* add-item that passes the filter, if any.
RECURSIVE FirstEligible(_)
FirstEligible(inner) ==
    IF inner = <<>>
    THEN None
    ELSE IF IsSome(Head(inner).add) /\ Eligible(Unwrap(Head(inner).add))
         THEN Some(Unwrap(Head(inner).add))
         ELSE FirstEligible(Tail(inner))

\* What one popped action leaves in next_action: (add-item, time offset) or None.
Select(action) ==
    IF IsSome(action.replay)
    THEN LET rp == Unwrap(action.replay)
             f == FirstEligible(rp.actions)
         IN IF IsSome(f)
            THEN Some([item |-> Unwrap(f), time_delta |-> Some(rp.video_offset_time_msec)])
            ELSE None
    ELSE IF IsSome(action.add) /\ Eligible(Unwrap(action.add))
         THEN Some([item |-> Unwrap(action.add), time_delta |-> None])
         ELSE None

PopNextStopAtSkip(q) ==
    IF q = <<>>
    THEN [sel |-> None, rest |-> <<>>]
    ELSE [sel |-> Select(Head(q)), rest |-> Tail(q)]

\* The while loop: pop from the front until an action selects something or
\* the queue is empty.
RECURSIVE PopNext(_)
PopNext(q) ==
    IF q = <<>>
    THEN [sel |-> None, rest |-> <<>>]
    ELSE LET s == Select(Head(q))
         IN IF IsSome(s) THEN [sel |-> s, rest |-> Tail(q)] ELSE PopNext(Tail(q))

\* timestamp_usec.timestamp_millis()
TimestampMillis(usec) == usec \div 1000

IsSuperOfChosenRenderer(item) == IsNone(item.text) /\ IsSome(item.paid)

\* is_super: whether the add-item carries a paid renderer.
IsSuper(item) == IsSome(item.paid)

\* The ChatMessage built from the selected add-item: Ok(message), or Panic
\* where the code aborts (unimplemented!(), unwrap of an absent message,
\* index len - 1 of an empty thumbnail list).
Materialize(sel) ==
    LET item == sel.item IN
    IF IsNone(item.text) /\ IsNone(item.paid)
    THEN Panic
    ELSE LET renderer == IF IsSome(item.text) THEN Unwrap(item.text) ELSE Unwrap(item.paid)
         IN IF IsNone(renderer.message) \/ Len(renderer.thumbnails) = 0
            THEN Panic
            ELSE Ok([runs |-> Unwrap(renderer.message),
                     is_super |-> IsSuper(item),
                     author |-> [display_name |->
                                     IF IsSome(renderer.author_name)
                                     THEN Unwrap(renderer.author_name)
                                     ELSE renderer.author_external_channel_id,
                                 id |-> renderer.author_external_channel_id,
                                 avatar |-> renderer.thumbnails[Len(renderer.thumbnails)]],
                     timestamp |-> TimestampMillis(renderer.timestamp_usec),
                     time_delta |-> sel.time_delta])

\* Iterator::next on a processor whose queue is q.
IterNext(q) ==
    LET p == PopNext(q) IN
    IF IsNone(p.sel)
    THEN [tag |-> "None", msg |-> None, rest |-> p.rest]
    ELSE LET m == Materialize(Unwrap(p.sel))
         IN IF m.tag = "Panic"
            THEN [tag |-> "Panic", msg |-> None, rest |-> p.rest]
            ELSE [tag |-> "Some", msg |-> m.val, rest |-> p.rest]

\* ------------------------------------------------------------------ scripted inputs
\* Sequences over S of length at most n.
SeqsUpTo(S, n) == UNION {[1..k -> S] : k \in 0..n}

\* The actions a scripted page is built from: a text message (the url of the
\* i-th thumbnail is written i), a text message without runs, which the
\* filter skips, and a text message whose author photo has no thumbnail.
TextItem(thumbs) == Item(Some(Renderer(Some("hi"), Some("Ann"), thumbs)), None)
NoRunsItem == Item(Some(Renderer(None, None, <<>>)), None)
ScriptActions ==
    {AddAction(TextItem(<<1, 2>>)), AddAction(NoRunsItem), AddAction(TextItem(<<>>))}

ScriptActionLists == Opt(SeqsUpTo(ScriptActions, MaxActions))

\* The responses the decoder is applied to.
DecoderConts ==
    {<<>>} \cup {<<Continuation(i, t, r)>> :
                    i \in Opt(Invalidations), t \in Opt(Tokens), r \in Opt(Tokens)}
DecoderResponses ==
    {EmptyResponse} \cup {Response(c, a) : c \in DecoderConts, a \in ScriptActionLists}

\* The responses the server is scripted to give in a session.
StreamConts ==
    {<<>>} \cup {<<Continuation(i, t, r)>> :
                    i \in Opt([continuation : {"k1"}, topic : Topics]),
                    t \in Opt({"k2"}), r \in Opt({"k1"})}
StreamResponses ==
    {EmptyResponse} \cup {Response(c, a) : c \in StreamConts, a \in ScriptActionLists}

\* The failures of fetch_yt_chat_page.
FetchErrors == {"TimedOut"}

\* ------------------------------------------------------------------ state
VARIABLES
    live,       \* request_options.live_status
    pc,         \* where stream() / the generator stands
    response,   \* Option: the response held and not yet decoded (initial_chat)
    processor,  \* Option: the current YouTubeChatPageProcessor
    out,        \* the items the consumer has been given, in order
    topic,      \* Option: the topic the push subscription is on
    subscribed, \* the push subscription is open (not released)
    pending,    \* push events sent on the channel and not yet received
    closed,     \* the push channel is closed
    received,   \* push events receiver.recv() has returned
    fetches,    \* page fetches started
    inflight,   \* page fetches started and not yet completed
    sent,       \* Option: the continuation token of the last request
    pageNo,     \* pages decoded into a processor
    popped,     \* raw actions popped from the current processor's queue
    why,        \* the error stream() returned, or why the generator ended
    page_contents, \* Option: the text of the watch page, as get_options_from_live_page reads it
    options     \* Option: what get_options_from_live_page returned

vars == <<live, pc, response, processor, out, topic, subscribed, pending, closed, received,
          fetches, inflight, sent, pageNo, popped, why, page_contents, options>>

chan == <<pending, closed, received>>

InitCommon ==
    /\ processor = None
    /\ out = <<>>
    /\ topic = None
    /\ subscribed = FALSE
    /\ pending = 0
    /\ closed = FALSE
    /\ received = 0
    /\ fetches = 0
    /\ inflight = 0
    /\ sent = None
    /\ pageNo = 0
    /\ popped = 0
    /\ why = ""
    /\ page_contents = None
    /\ options = None

\* A session: stream(options, continuation) is about to be called.
Init ==
    /\ live \in BOOLEAN
    /\ pc = "start"
    /\ response = None
    /\ InitCommon

\* ------------------------------------------------------------------ stream()
\* The topic stream() opens the subscription on: Ok(topic), or Panic where
\* one of the unwraps or the index fails.
InitialTopic(initial_chat) ==
    IF ~HasCont0(initial_chat)
    THEN PanicAt("NoContinuation")
    ELSE IF IsNone(Cont0(initial_chat).invalidation_continuation_data)
         THEN PanicAt("NoTopic")
         ELSE Ok(Unwrap(Cont0(initial_chat).invalidation_continuation_data).topic)

\* stream() is called: the first page is requested with the bootstrap token.
StreamCall ==
    /\ pc = "start"
    /\ pc' = "fetch_initial"
    /\ fetches' = fetches + 1
    /\ inflight' = inflight + 1
    /\ sent' = Some("k0")
    /\ UNCHANGED <<page_contents, options, live, response, processor, out, topic, subscribed, chan, pageNo, popped, why>>

\* The first fetch fails: stream() returns the error.
FetchInitialErr ==
    /\ pc = "fetch_initial"
    /\ \E e \in FetchErrors :
          /\ pc' = "failed"
          /\ why' = e
    /\ inflight' = inflight - 1
    /\ UNCHANGED <<page_contents, options, live, response, processor, out, topic, subscribed, chan, fetches, sent, pageNo, popped>>

\* The first fetch succeeds and the topic is read from the response.
FetchInitialOk ==
    /\ pc = "fetch_initial"
    /\ \E page \in StreamResponses :
          /\ response' = Some(page)
          /\ pc' = IF InitialTopic(page).tag = "Ok" THEN "subscribe" ELSE "aborted"
          /\ why' = InitialTopic(page).err
    /\ inflight' = inflight - 1
    /\ UNCHANGED <<page_contents, options, live, processor, out, topic, subscribed, chan, fetches, sent, pageNo, popped>>

\* SignalerChannel::new(topic) and spawn_event_subscriber() succeed: the
\* subscription is open and stream() returns the generator.
SubscribeOk ==
    /\ pc = "subscribe"
    /\ topic' = InitialTopic(Unwrap(response)).val
    /\ subscribed' = TRUE
    /\ pc' = "created"
    /\ UNCHANGED <<page_contents, options, live, response, processor, out, chan, fetches, inflight, sent, pageNo, popped, why>>

\* One of them fails: stream() returns the error.
SubscribeErr ==
    /\ pc = "subscribe"
    /\ pc' = "failed"
    /\ why' = "Signaler"
    /\ UNCHANGED <<page_contents, options, live, response, processor, out, topic, subscribed, chan, fetches, inflight, sent, pageNo, popped>>

\* ------------------------------------------------------------------ generator
\* Start, with the request for the next page issued as soon as the page is
\* decoded (a prefetch).
StartPrefetch ==
    /\ pc = "created"
    /\ LET r == New(Unwrap(response), live) IN
         IF r.tag = "Ok"
         THEN /\ processor' = r.val
              /\ pageNo' = pageNo + 1
              /\ popped' = 0
              /\ response' = None
              /\ pc' = "drain"
              /\ fetches' = fetches + 1
              /\ inflight' = inflight + 1
         ELSE /\ pc' = "aborted"
              /\ UNCHANGED <<processor, pageNo, popped, response, fetches, inflight>>
    /\ UNCHANGED <<page_contents, options, live, out, topic, subscribed, chan, sent, why>>

\* First poll: the first page is moved into the decoder and the result is
\* unwrapped.
Start ==
    /\ pc = "created"
    /\ LET r == New(Unwrap(response), live) IN
         IF r.tag = "Ok"
         THEN /\ processor' = r.val
              /\ pageNo' = pageNo + 1
              /\ popped' = 0
              /\ response' = None
              /\ pc' = "drain"
         ELSE /\ pc' = "aborted"
              /\ UNCHANGED <<processor, pageNo, popped, response>>
    /\ UNCHANGED <<page_contents, options, live, out, topic, subscribed, chan, fetches, inflight, sent, why>>

\* The output item made from a message: its page and the position of its
\* raw action in the page's action list are kept with it.
OutItem(msg, rest) ==
    [tag |-> "Ok", page |-> pageNo,
     idx |-> popped + Len(Unwrap(processor).actions) - Len(rest),
     msg |-> msg]

\* AfterDrain, polling for the next page without waiting for a push event.
AfterDrainNoWait(p) == "cont"

\* AfterDrain, without the topic refresh.
AfterDrainNoRefresh(p) == "recv"

\* Where the generator goes once the page's iterator has returned None: after
\* the first page to the receive, after a later page to the topic refresh
\* (whose unwrap aborts when the page has no topic).
AfterDrain(p) ==
    IF pageNo = 1
    THEN "recv"
    ELSE IF IsSome(p.signaler_topic) THEN "refresh" ELSE "aborted"

\* Unlock, with the guard kept (held across the yield).
UnlockNever(p) == [p EXCEPT !.locked = TRUE]

\* The guard taken by try_lock() is dropped at the end of the match.
Unlock(p) == [p EXCEPT !.locked = FALSE]

\* One call of Iterator::next on processor p, whose lock is free: the
\* processor it leaves and the item, None or Panic it returns.
LockedNext(p) ==
    LET r == IterNext(p.actions)
    IN [r EXCEPT !.rest = Unlock([p EXCEPT !.actions = r.rest, !.locked = TRUE])]

\* One turn of `for msg in &processor { yield msg; }`: try_lock().unwrap()
\* aborts when the lock is held.
Drain ==
    /\ pc = "drain"
    /\ LET p == Unwrap(processor) IN
         IF p.locked
         THEN /\ pc' = "aborted"
              /\ why' = "WouldBlock"
              /\ UNCHANGED <<processor, popped, out>>
         ELSE LET r == LockedNext(p) IN
              /\ processor' = Some(r.rest)
              /\ popped' = popped + Len(p.actions) - Len(r.rest.actions)
              /\ CASE r.tag = "Some" ->
                        /\ out' = Append(out, OutItem(Unwrap(r.msg), r.rest.actions))
                        /\ pc' = "drain"
                        /\ why' = why
                   [] r.tag = "None" ->
                        /\ out' = out
                        /\ pc' = AfterDrain(p)
                        /\ why' = IF AfterDrain(p) = "aborted" THEN "NoTopic" ELSE why
                   [] r.tag = "Panic" ->
                        /\ out' = out
                        /\ pc' = "aborted"
                        /\ why' = "Materialize"
    /\ UNCHANGED <<page_contents, options, live, response, topic, subscribed, chan, fetches, inflight, sent, pageNo>>

\* subscriber.refresh_topic(processor.signaler_topic.unwrap()) completes.
RefreshTopic ==
    /\ pc = "refresh"
    /\ topic' = Unwrap(processor).signaler_topic
    /\ pc' = "recv"
    /\ UNCHANGED <<page_contents, options, subscribed, live, response, processor, out, chan, fetches, inflight, sent, pageNo, popped, why>>

\* receiver.recv() returns an event.
RecvEvent ==
    /\ pc = "recv"
    /\ pending > 0
    /\ pending' = pending - 1
    /\ received' = received + 1
    /\ pc' = "cont"
    /\ UNCHANGED <<page_contents, options, live, response, processor, out, topic, subscribed, closed, fetches, inflight, sent,
                   pageNo, popped, why>>

\* RecvClosed, with the error of recv() taken for an event.
RecvClosedAsEvent ==
    /\ pc = "recv"
    /\ pending = 0
    /\ closed
    /\ pc' = "cont"
    /\ UNCHANGED <<page_contents, options, live, response, processor, out, topic, subscribed, chan, fetches, inflight, sent,
                   pageNo, popped, why>>

\* receiver.recv() returns an error: the channel is closed and empty.
RecvClosed ==
    /\ pc = "recv"
    /\ pending = 0
    /\ closed
    /\ pc' = "ended"
    /\ why' = "closed"
    /\ UNCHANGED <<page_contents, options, live, response, processor, out, topic, subscribed, chan, fetches, inflight, sent, pageNo, popped>>

\* processor.cont(): the request it issues, if any (the stored token).
ContRequest(p) == p.continuation_token

\* Cont, requesting the next page whether or not a token is stored.
ContAlwaysFetch ==
    /\ pc = "cont"
    /\ fetches < MaxFetches
    /\ pc' = "fetching"
    /\ fetches' = fetches + 1
    /\ inflight' = inflight + 1
    /\ sent' = Unwrap(processor).continuation_token
    /\ UNCHANGED <<page_contents, options, live, response, processor, out, topic, subscribed, chan, pageNo, popped, why>>

\* processor.cont() is called: without a token it returns None and the loop
\* breaks; with one, next_page requests the page.
Cont ==
    /\ pc = "cont"
    /\ LET req == ContRequest(Unwrap(processor)) IN
         IF IsNone(req)
         THEN /\ pc' = "ended"
              /\ why' = "none"
              /\ UNCHANGED <<fetches, inflight, sent>>
         ELSE /\ fetches < MaxFetches
              /\ pc' = "fetching"
              /\ fetches' = fetches + 1
              /\ inflight' = inflight + 1
              /\ sent' = req
              /\ why' = why
    /\ UNCHANGED <<page_contents, options, live, response, processor, out, topic, subscribed, chan, pageNo, popped>>

\* The fetch fails: cont() returns Some(Err(e)), which is printed, and the
\* loop breaks.
FetchErr ==
    /\ pc = "fetching"
    /\ \E e \in FetchErrors :
          /\ pc' = "ended"
          /\ why' = e
    /\ inflight' = inflight - 1
    /\ UNCHANGED <<page_contents, options, live, response, processor, out, topic, subscribed, chan, fetches, sent, pageNo, popped>>

\* The fetch succeeds and the page is decoded: a new processor replaces the
\* current one, or the decode error is printed and the loop breaks.
FetchOk ==
    /\ pc = "fetching"
    /\ \E page \in StreamResponses :
          LET r == New(page, live) IN
          CASE r.tag = "Ok" ->
                    /\ processor' = r.val
                    /\ pageNo' = pageNo + 1
                    /\ popped' = 0
                    /\ pc' = "drain"
                    /\ why' = why
               [] r.tag = "Err" ->
                    /\ pc' = "ended"
                    /\ why' = r.err
                    /\ UNCHANGED <<processor, pageNo, popped>>
               [] r.tag = "Panic" ->
                    /\ pc' = "aborted"
                    /\ UNCHANGED <<processor, pageNo, popped, why>>
    /\ inflight' = inflight - 1
    /\ UNCHANGED <<page_contents, options, live, response, out, topic, subscribed, chan, fetches, sent>>

\* ------------------------------------------------------------------ environment
\* The subscription exists and the generator has not finished.
Subscribed == pc \in {"created", "drain", "refresh", "recv", "cont", "fetching"}

\* The places where the generator is suspended and the consumer may drop it.
Suspended == pc \in {"created", "drain", "refresh", "recv", "fetching"}

\* The push service signals new data on the channel.
PushEvent ==
    /\ Subscribed
    /\ ~closed
    /\ received + pending < MaxFetches - 1
    /\ pending' = pending + 1
    /\ UNCHANGED <<page_contents, options, live, pc, response, processor, out, topic, subscribed, closed, received, fetches,
                   inflight, sent, pageNo, popped, why>>

\* The push channel closes.
CloseChannel ==
    /\ Subscribed
    /\ ~closed
    /\ closed' = TRUE
    /\ UNCHANGED <<page_contents, options, live, pc, response, processor, out, topic, subscribed, pending, received, fetches,
                   inflight, sent, pageNo, popped, why>>

\* Dropping the generator drops the SignalerChannel it owns, which releases
\* the subscription.
SubscriptionAfterDrop == FALSE

\* Drop, with the generator kept running by a task of its own.
DropDetached ==
    /\ Suspended
    /\ why' = "dropped"
    /\ subscribed' = SubscriptionAfterDrop
    /\ UNCHANGED <<page_contents, options, live, pc, response, processor, out, topic, chan, fetches, inflight, sent,
                   pageNo, popped>>

\* The consumer stops polling and drops the generator: its processor and a
\* request in flight are dropped with it.
Drop ==
    /\ Suspended
    /\ pc' = "dropped"
    /\ inflight' = 0
    /\ processor' = None
    /\ popped' = 0
    /\ why' = "dropped"
    /\ subscribed' = SubscriptionAfterDrop
    /\ UNCHANGED <<page_contents, options, live, response, out, topic, chan, fetches, sent, pageNo>>

Next ==
    \/ StreamCall
    \/ FetchInitialErr
    \/ FetchInitialOk
    \/ SubscribeOk
    \/ SubscribeErr
    \/ Start
    \/ Drain
    \/ RefreshTopic
    \/ RecvEvent
    \/ RecvClosed
    \/ Cont
    \/ FetchErr
    \/ FetchOk
    \/ PushEvent
    \/ CloseChannel
    \/ Drop

Spec == Init /\ [][Next]_vars

\* ------------------------------------------------------------------ decoder alone
\* YouTubeChatPageProcessor::new applied to every response in either mode.
InitNew ==
    /\ live \in BOOLEAN
    /\ pc = "new"
    /\ response \in {Some(r) : r \in DecoderResponses}
    /\ InitCommon

NewCall ==
    /\ pc = "new"
    /\ LET r == New(Unwrap(response), live) IN
         /\ processor' = r.val
         /\ why' = r.err
         /\ pc' = CASE r.tag = "Ok" -> "new_ok"
                     [] r.tag = "Err" -> "new_err"
                     [] r.tag = "Panic" -> "aborted"
    /\ UNCHANGED <<page_contents, options, live, response, out, topic, subscribed, chan, fetches, inflight, sent, pageNo, popped>>

NextNew == NewCall

SpecNew == InitNew /\ [][NextNew]_vars

\* ------------------------------------------------------------------ properties
\* Every item given to the consumer is a message (no Err item).
NoErrItem == \A i \in 1..Len(out) : out[i].tag = "Ok"

\* The position in queue q of the first action the filter selects; 0 if none.
FirstSel(q) ==
    IF \E k \in 1..Len(q) : IsSome(Select(q[k]))
    THEN CHOOSE k \in 1..Len(q) :
             /\ IsSome(Select(q[k]))
             /\ \A m \in 1..(k - 1) : IsNone(Select(q[m]))
    ELSE 0

\* Item a comes before item b in page-then-within-page order.
Before(a, b) == a.page < b.page \/ (a.page = b.page /\ a.idx < b.idx)

C1_Inv ==
    live =>
        /\ \A i, j \in 1..Len(out) : i < j => Before(out[i], out[j])
        /\ \A i \in 1..Len(out) : out[i].page - 1 <= received
        /\ fetches <= 1 + received

C1_Step ==
    live =>
        /\ out' # out =>
              LET q == Unwrap(processor).actions
                  k == FirstSel(q)
              IN /\ k > 0
                 /\ Len(out') = Len(out) + 1
                 /\ SubSeq(out', 1, Len(out)) = out
                 /\ out'[Len(out')].tag = "Ok"
                 /\ out'[Len(out')].page = pageNo
                 /\ out'[Len(out')].idx = popped + k
        /\ (pc = "drain" /\ pc' \in {"recv", "refresh"}) =>
              FirstSel(Unwrap(processor).actions) = 0

\* C1: in a live session the output is in page-then-within-page order and
\* no selected message of a page is skipped: each emitted item is the first
\* action of the current queue that the filter selects, and the drain of a
\* page ends only when none is left. A message of page n >= 2 is emitted only
\* after n - 1 push events have been received, and the number of fetches
\* never exceeds one plus the number of received events.
C1_LiveOrder == []C1_Inv /\ [][C1_Step]_vars

\* Two messages of page 1 followed by a message of page 2 have been emitted
\* in a live session.
C1_Witness ==
    /\ live
    /\ Len(out) >= 3
    /\ out[1].page = 1 /\ out[2].page = 1 /\ out[3].page = 2
    /\ received >= 1

IsReplayScriptPage(r) ==
    /\ HasCont0(r)
    /\ IsSome(Unwrap(r.continuation_contents).actions)

\* C2: in a replay session whose pages carry an action list and a replay
\* continuation, stream() never aborts, never waits for a push event and
\* gives the consumer no error.
C2_ReplayRunsToEnd ==
    /\ (~live /\ IsSome(response) /\ IsReplayScriptPage(Unwrap(response)))
          => pc # "aborted"
    /\ ~live => pc # "recv"
    /\ ~live => NoErrItem

\* The generator ended because a continuation fetch or decode failed.
EndedOnFailure == pc = "ended" /\ why \notin {"closed", "none"}

\* C3: when the generator ends because fetching or decoding a continuation
\* page failed, the last item given to the consumer is the Err item.
C3_FailureIsLastItem ==
    EndedOnFailure => (Len(out) > 0 /\ out[Len(out)].tag = "Err")

C4_Inv ==
    /\ inflight <= 1
    /\ (inflight = 1 /\ IsSome(processor)) => Unwrap(processor).actions = <<>>

C4_Step ==
    /\ out' # out => (inflight = 0 /\ inflight' = 0)
    /\ fetches' > fetches => (IsNone(processor) \/ Unwrap(processor).actions = <<>>)

\* C4: at most one fetch is in flight; while one is in flight the queue of the
\* current page is empty (all its messages were emitted before the fetch
\* started), and no item is emitted while a fetch is in flight.
C4_OneFetchNoPrefetch == []C4_Inv /\ [][C4_Step]_vars

\* The fetch of a later page is in flight after messages were emitted.
C4_Witness == pc = "fetching" /\ inflight = 1 /\ pageNo >= 1 /\ Len(out) >= 2

C5_Inv ==
    (live /\ pc = "recv") =>
        /\ IsSome(topic)
        /\ topic = Unwrap(processor).signaler_topic

C5_Step == topic' # topic => pc \in {"subscribe", "refresh"}

\* C5: in a live session, whenever the generator waits for a push event the
\* subscribed topic is the topic of the page decoded last, and the topic is
\* written only by stream() (opening the subscription) and by the
\* generator's refresh.
C5_TopicTracksPage == []C5_Inv /\ [][C5_Step]_vars

\* A live session waits for an event after its third page, subscribed to B.
C5_Witness == live /\ pc = "recv" /\ pageNo >= 3 /\ topic = Some("B")

C6_Inv == (pc = "ended" /\ why = "closed") => (NoErrItem /\ inflight = 0)

C6_Step ==
    /\ (live /\ pc = "recv" /\ pending = 0 /\ closed /\ pc' # pc) =>
          /\ pc' \in {"ended", "dropped"}
          /\ out' = out
          /\ fetches' = fetches
    /\ pc = "ended" => (pc' = "ended" /\ out' = out /\ fetches' = fetches)

\* C6: in a live session, when the generator waits for an event on a closed
\* and empty channel its next step ends it (unless the consumer drops it),
\* with no item emitted and no fetch started; once ended nothing is emitted
\* or fetched, and the output holds no Err item.
C6_ClosedChannelEnds == []C6_Inv /\ [][C6_Step]_vars

\* A live session ended on the closed channel after emitting messages.
C6_Witness == live /\ pc = "ended" /\ why = "closed" /\ Len(out) >= 1 /\ pageNo >= 2

C7_Inv ==
    /\ inflight = 1 => IsSome(sent)
    /\ (pc = "ended" /\ why = "none") => (NoErrItem /\ inflight = 0)

C7_Step ==
    (pc = "cont" /\ IsNone(Unwrap(processor).continuation_token) /\ pc' # pc) =>
        /\ pc' = "ended"
        /\ why' = "none"
        /\ fetches' = fetches
        /\ sent' = sent
        /\ out' = out

\* C7: when the processor holds no token, cont() starts no fetch and the
\* generator ends with no Err item; every request in flight carries a token.
C7_NoTokenEnds == []C7_Inv /\ [][C7_Step]_vars

\* The generator ended because the processor held no token.
C7_Witness == pc = "ended" /\ why = "none" /\ received >= 1

\* C8: decoding a response that has a continuation but no action list
\* succeeds with an empty queue in live mode and fails with
\* EndOfContinuation, building no processor, in replay mode.
C8_NoActionList ==
    (/\ pc # "new"
     /\ HasCont0(Unwrap(response))
     /\ IsNone(Unwrap(Unwrap(response).continuation_contents).actions))
    => IF live
       THEN /\ pc = "new_ok"
            /\ IsSome(processor)
            /\ Unwrap(processor).actions = <<>>
            /\ why = ""
       ELSE /\ pc = "new_err"
            /\ why = "EndOfContinuation"
            /\ IsNone(processor)

\* A replay response with a continuation and no action list was decoded.
C8_Witness ==
    /\ ~live
    /\ pc = "new_err"
    /\ HasCont0(Unwrap(response))
    /\ IsNone(Unwrap(Unwrap(response).continuation_contents).actions)

\* C9: the stored token is, in live mode, the invalidation continuation's
\* token if that continuation is present and else the timed continuation's
\* token (absent if both are); in replay mode the replay continuation's
\* token. The stored topic is the invalidation continuation's topic in live
\* mode and absent otherwise.
C9_TokenSelection ==
    pc = "new_ok" =>
        LET c == Cont0(Unwrap(response))
            p == Unwrap(processor)
            inv == c.invalidation_continuation_data
        IN /\ (live /\ IsSome(inv)) => p.continuation_token = Some(Unwrap(inv).continuation)
           /\ (live /\ IsNone(inv)) => p.continuation_token = c.timed_continuation_data
           /\ ~live => p.continuation_token = c.live_chat_replay_continuation_data
           /\ p.signaler_topic = IF live /\ IsSome(inv) THEN Some(Unwrap(inv).topic) ELSE None

\* A live response carrying both continuations, with different tokens, was
\* decoded.
C9_Witness ==
    /\ live
    /\ pc = "new_ok"
    /\ LET c == Cont0(Unwrap(response)) IN
         /\ IsSome(c.invalidation_continuation_data)
         /\ IsSome(c.timed_continuation_data)
         /\ Unwrap(c.timed_continuation_data)
               # Unwrap(c.invalidation_continuation_data).continuation

\* C10: a response without continuation contents is never decoded into a
\* processor and never aborts: the caller gets MissingContinuationContents.
C10_MissingContentsIsError ==
    (/\ IsSome(response)
     /\ IsNone(Unwrap(response).continuation_contents)
     /\ pc \notin {"new"})
    => (pc \in {"failed", "new_err"} /\ why = "MissingContinuationContents")

\* ------------------------------------------------------------------ the iterator alone
\* A processor is built from one page and next() is called until it has
\* returned None twice, over a richer set of actions than the stream's script.
MaxInner == 2

\* Renderers: with runs, without runs, with runs and an empty thumbnail list.
TextRuns == Renderer(Some("r1"), Some("Ann"), <<1, 2>>)
TextNoRuns == Renderer(None, None, <<1>>)
TextNoThumbs == Renderer(Some("r3"), None, <<>>)
PaidRuns == Renderer(Some("p1"), Some("Bob"), <<3>>)
PaidNoRuns == Renderer(None, Some("Bob"), <<3>>)

\* The item of an add-item action: each renderer field present or not.
IterItems ==
    {Item(t, p) : t \in {None, Some(TextRuns), Some(TextNoRuns), Some(TextNoThumbs)},
                  p \in {None, Some(PaidRuns), Some(PaidNoRuns)}}

\* The inner actions of a replay wrapper.
InnerActions ==
    {AddAction(Item(Some(TextRuns), None)),
     AddAction(Item(None, Some(PaidRuns))),
     AddAction(Item(Some(TextNoRuns), None))}

ReplayWrappers ==
    {ReplayAction(s, 7) : s \in SeqsUpTo(InnerActions, MaxInner)}
        \cup {ReplayAction(<<a>>, 9) : a \in InnerActions}

IterActions == {AddAction(i) : i \in IterItems} \cup {OtherAction} \cup ReplayWrappers

IterResponses ==
    {Response(<<Continuation(None, None, None)>>, Some(q)) :
        q \in SeqsUpTo(IterActions, MaxActions)}

\* next() does not read the mode; the page is decoded as a replay page, whose
\* list may hold wrappers and direct add-items alike.
InitIter ==
    /\ live = FALSE
    /\ pc = "new"
    /\ response \in {Some(r) : r \in IterResponses}
    /\ InitCommon

\* One call of next() on the processor.
IterCall ==
    /\ pc \in {"new_ok", "iter_none"}
    /\ LET p == Unwrap(processor) IN
         IF p.locked
         THEN /\ pc' = "aborted" /\ why' = "WouldBlock" /\ UNCHANGED <<processor, popped, out>>
         ELSE LET r == LockedNext(p) IN
              /\ processor' = Some(r.rest)
              /\ popped' = popped + Len(p.actions) - Len(r.rest.actions)
              /\ CASE r.tag = "Some" ->
                         /\ out' = Append(out, OutItem(Unwrap(r.msg), r.rest.actions))
                         /\ pc' = "new_ok" /\ why' = why
                   [] r.tag = "None" ->
                         /\ out' = out
                         /\ pc' = IF pc = "new_ok" THEN "iter_none" ELSE "iter_end"
                         /\ why' = why
                   [] r.tag = "Panic" ->
                         /\ out' = out /\ pc' = "aborted" /\ why' = "Materialize"
    /\ UNCHANGED <<page_contents, options, live, response, topic, subscribed, chan, fetches, inflight, sent, pageNo>>

NextIter == NewCall \/ IterCall

SpecIter == InitIter /\ [][NextIter]_vars

\* ------------------------------------------------------------------ get_options_from_live_page
\* The page text, by what the regular expressions can find in it: the two
\* markers, the API key, the client version as written, and the continuation
\* of the "Live chat" and of the "Top chat replay" menu entry with its
\* `selected` flag.
ChatEntries == {[selected |-> sel, continuation |-> "c"] : sel \in BOOLEAN}

Pages ==
    [live_now : BOOLEAN,
     replay : BOOLEAN,
     api_key : {None, Some("key")},
     client_version : {None, Some("2.2024"), Some("beta")},
     live_chat : {None} \cup {Some([e EXCEPT !.continuation = "cl"]) : e \in ChatEntries},
     replay_chat : {None} \cup {Some([e EXCEPT !.continuation = "cr"]) : e \in ChatEntries}]

LiveStatusReplayFirst(pg) ==
    IF pg.replay THEN Some(FALSE) ELSE IF pg.live_now THEN Some(TRUE) ELSE None

\* live_status: Some(true), Some(false), or None where NotStream is returned.
LiveStatus(pg) ==
    IF pg.live_now THEN Some(TRUE) ELSE IF pg.replay THEN Some(FALSE) ELSE None

\* The client version pattern captures digits and dots only.
VersionMatches(v) == v \in {"2.2024"}

DefaultClientVersion == "2.20230801.08.00"

ClientVersionAsWritten(pg) ==
    IF IsSome(pg.client_version) THEN Unwrap(pg.client_version) ELSE ""

ClientVersion(pg) ==
    IF IsSome(pg.client_version) /\ VersionMatches(Unwrap(pg.client_version))
    THEN Unwrap(pg.client_version)
    ELSE DefaultClientVersion

\* The capture of the continuation pattern of the mode: the live pattern
\* accepts either value of `selected`, the replay pattern only true.
ChatContinuation(pg, live_status) ==
    IF live_status
    THEN IF IsSome(pg.live_chat) THEN Some(Unwrap(pg.live_chat).continuation) ELSE None
    ELSE IF IsSome(pg.replay_chat) /\ Unwrap(pg.replay_chat).selected
         THEN Some(Unwrap(pg.replay_chat).continuation)
         ELSE None

GetOptions(pg) ==
    IF IsNone(LiveStatus(pg))
    THEN Err("NotStream")
    ELSE IF IsNone(pg.api_key)
    THEN Err("NoInnerTubeKey")
    ELSE LET live_status == Unwrap(LiveStatus(pg))
             continuation == ChatContinuation(pg, live_status)
         IN IF IsNone(continuation)
            THEN Err("NoChatContinuation")
            ELSE Ok([options |-> [api_key |-> Unwrap(pg.api_key),
                                  client_version |-> ClientVersion(pg),
                                  live_status |-> live_status],
                     continuation |-> Unwrap(continuation)])

InitBoot ==
    /\ live = FALSE
    /\ pc = "boot"
    /\ response = None
    /\ InitCommon

\* The GET of the watch page fails: the error is returned.
BootGetErr ==
    /\ pc = "boot"
    /\ \E e \in FetchErrors :
          /\ pc' = "boot_err"
          /\ why' = e
    /\ UNCHANGED <<live, response, processor, out, topic, subscribed, chan, fetches,
                   inflight, sent, pageNo, popped, page_contents, options>>

\* The GET succeeds and the body is read.
BootGetOk ==
    /\ pc = "boot"
    /\ \E pg \in Pages : page_contents' = Some(pg)
    /\ pc' = "boot_page"
    /\ UNCHANGED <<live, response, processor, out, topic, subscribed, chan, fetches,
                   inflight, sent, pageNo, popped, why, options>>

\* The body is searched and the function returns.
BootParse ==
    /\ pc = "boot_page"
    /\ LET r == GetOptions(Unwrap(page_contents)) IN
         /\ options' = r.val
         /\ why' = r.err
         /\ pc' = IF r.tag = "Ok" THEN "boot_ok" ELSE "boot_err"
    /\ UNCHANGED <<live, response, processor, out, topic, subscribed, chan, fetches,
                   inflight, sent, pageNo, popped, page_contents>>

NextBoot == BootGetErr \/ BootGetOk \/ BootParse

SpecBoot == InitBoot /\ [][NextBoot]_vars

\* ------------------------------------------------------------------ claims C11..C20

\* The action list of the page the processor was built from.
RawActions ==
    IF IsSome(response) /\ IsSome(Unwrap(response).continuation_contents)
    THEN LET a == Unwrap(Unwrap(response).continuation_contents).actions
         IN IF IsSome(a) THEN Unwrap(a) ELSE <<>>
    ELSE <<>>

\* Eligibility as the specification words it: a plain-text renderer with
\* runs, or a paid renderer whose wrapped renderer has runs.
HasRuns(item) ==
    \/ IsSome(item.text) /\ IsSome(Unwrap(item.text).message)
    \/ IsSome(item.paid) /\ IsSome(Unwrap(item.paid).message)

ShouldYield(action) ==
    IF IsSome(action.replay)
    THEN \E n \in DOMAIN Unwrap(action.replay).actions :
            LET a == Unwrap(action.replay).actions[n]
            IN IsSome(a.add) /\ HasRuns(Unwrap(a.add))
    ELSE IsSome(action.add) /\ HasRuns(Unwrap(action.add))

Emitted(i) == \E k \in DOMAIN out : out[k].idx = i

IterDrained == pc \in {"iter_none", "iter_end"}

\* C11: an action yields a message iff it is eligible; the others are
\* skipped without an error and without stopping the iteration.
C11_EligibleIffEmitted ==
    /\ pc # "aborted"
    /\ \A k \in DOMAIN out : ShouldYield(RawActions[out[k].idx])
    /\ IterDrained => \A i \in DOMAIN RawActions : ShouldYield(RawActions[i]) => Emitted(i)

\* The add-item a message was built from, and the renderer its runs are from.
SourceItem(k) == Unwrap(Select(RawActions[out[k].idx])).item
FromReplay(k) == IsSome(RawActions[out[k].idx].replay)
WrapperOffset(k) == Unwrap(RawActions[out[k].idx].replay).video_offset_time_msec

C12_TimeDelta ==
    \A k \in DOMAIN out :
        IF FromReplay(k)
        THEN out[k].msg.time_delta = Some(WrapperOffset(k))
        ELSE out[k].msg.time_delta = None

\* C12 as stated: timeDelta is absent for a direct add-item and the wrapper's
\* offset for a replay wrapper; isSuper iff the message was produced from the
\* paid renderer (the renderer the runs were taken from is the paid one).
C12_SuperIffProducedFromPaid ==
    /\ C12_TimeDelta
    /\ \A k \in DOMAIN out :
          out[k].msg.is_super <=> (IsNone(SourceItem(k).text) /\ IsSome(SourceItem(k).paid))

\* C12 as amended: timeDelta as stated; isSuper iff the add-item carries a
\* paid renderer, whichever renderer the runs were taken from.
C12_SuperIffCarriesPaid ==
    /\ C12_TimeDelta
    /\ \A k \in DOMAIN out :
          out[k].msg.is_super <=> IsSome(SourceItem(k).paid)

\* A direct add-item with both renderers was emitted as a super message with
\* the runs of its plain-text renderer, and a replay wrapper's paid message
\* with the wrapper's offset.
C12_Witness ==
    \E k, j \in DOMAIN out :
        /\ ~FromReplay(k) /\ IsSome(SourceItem(k).text) /\ IsSome(SourceItem(k).paid)
        /\ out[k].msg.is_super /\ out[k].msg.runs = "r1" /\ out[k].msg.time_delta = None
        /\ FromReplay(j) /\ out[j].msg.is_super /\ out[j].msg.time_delta = Some(9)

RunsOf(item) ==
    IF IsSome(item.text) THEN Unwrap(item.text).message ELSE Unwrap(item.paid).message

\* C16: a message that comes from a replay wrapper is built from the first
\* inner action with runs and carries the wrapper's offset; no raw action
\* gives more than one message.
C16_FirstEligibleOnly ==
    /\ \A k \in DOMAIN out :
          FromReplay(k) =>
              LET inner == Unwrap(RawActions[out[k].idx].replay).actions
              IN \E n \in DOMAIN inner :
                    /\ IsSome(inner[n].add) /\ HasRuns(Unwrap(inner[n].add))
                    /\ \A m \in 1..(n - 1) : ~(IsSome(inner[m].add) /\ HasRuns(Unwrap(inner[m].add)))
                    /\ Some(out[k].msg.runs) = RunsOf(Unwrap(inner[n].add))
                    /\ out[k].msg.time_delta = Some(WrapperOffset(k))
    /\ \A k, j \in DOMAIN out : out[k].idx = out[j].idx => k = j

\* A wrapper with two eligible inner actions gave exactly one message and the
\* queue was drained.
C16_Witness ==
    /\ IterDrained
    /\ \E k \in DOMAIN out :
          /\ FromReplay(k)
          /\ LET inner == Unwrap(RawActions[out[k].idx].replay).actions
             IN Len(inner) = 2 /\ \A n \in DOMAIN inner : HasRuns(Unwrap(inner[n].add))

C17_Inv ==
    /\ \A k \in DOMAIN out :
          /\ out[k].idx \in DOMAIN RawActions
          /\ IsSome(Select(RawActions[out[k].idx]))
          /\ Some(out[k].msg.runs) = RunsOf(SourceItem(k))
    /\ \A k, j \in DOMAIN out : k < j => out[k].idx < out[j].idx
    /\ IterDrained => Unwrap(processor).actions = <<>>

C17_Step ==
    IterDrained => (out' = out /\ processor' = processor /\ pc' = "iter_end")

\* C17: the messages come out in the order of the raw actions they are built
\* from, none twice; once next() has returned None the queue is empty and a
\* later call returns None again.
C17_OrderPreserved == []C17_Inv /\ [][C17_Step]_vars

\* Two different messages were emitted in the order of their actions, and
\* next() was called again after it had returned None.
C17_Witness ==
    /\ pc = "iter_end"
    /\ Len(out) = 2
    /\ out[1].msg.runs # out[2].msg.runs

\* C19: every item the filter selects is materialized without aborting.
C19_FilterAgrees == ~(pc = "aborted" /\ why = "Materialize")

\* get_options_from_live_page has returned on a page it has read.
BootReturned == pc \in {"boot_ok", "boot_err"} /\ IsSome(page_contents)

\* C14: the live marker makes the session live, also next to the replay
\* marker; the replay marker alone makes it replay; neither is NotStream;
\* the continuation returned is the one of the pattern of that mode.
C14_ModeDetermination ==
    BootReturned =>
        LET pg == Unwrap(page_contents) IN
        /\ (~pg.live_now /\ ~pg.replay) <=> (pc = "boot_err" /\ why = "NotStream")
        /\ pc = "boot_ok" =>
              /\ Unwrap(options).options.live_status = pg.live_now
              /\ Unwrap(options).continuation =
                    IF pg.live_now THEN Unwrap(pg.live_chat).continuation
                                   ELSE Unwrap(pg.replay_chat).continuation
        /\ why = "NoChatContinuation" =>
              IF pg.live_now
              THEN IsNone(pg.live_chat)
              ELSE ~(IsSome(pg.replay_chat) /\ Unwrap(pg.replay_chat).selected)

\* A page with both markers and both menu entries gave a live session with
\* the continuation of the live entry.
C14_Witness ==
    /\ pc = "boot_ok"
    /\ Unwrap(page_contents).live_now /\ Unwrap(page_contents).replay
    /\ IsSome(Unwrap(page_contents).replay_chat)
    /\ Unwrap(options).options.live_status
    /\ Unwrap(options).continuation = "cl"

\* The failure the claim's order gives for a page, "" for none.
ExpectedFailure(pg) ==
    IF ~pg.live_now /\ ~pg.replay THEN "NotStream"
    ELSE IF IsNone(pg.api_key) THEN "NoInnerTubeKey"
    ELSE IF pg.live_now /\ IsNone(pg.live_chat) THEN "NoChatContinuation"
    ELSE IF ~pg.live_now /\ ~(IsSome(pg.replay_chat) /\ Unwrap(pg.replay_chat).selected)
         THEN "NoChatContinuation"
    ELSE ""

\* C15: a missing key is NoInnerTubeKey, a missing continuation of the mode
\* is NoChatContinuation, a missing client version gives the default version;
\* of several failures the first in the order NotStream, NoInnerTubeKey,
\* NoChatContinuation is returned, and a failure returns no parameters.
C15_ExtractionOutcomes ==
    BootReturned =>
        LET pg == Unwrap(page_contents) IN
        /\ why = ExpectedFailure(pg)
        /\ pc = "boot_err" <=> ExpectedFailure(pg) # ""
        /\ pc = "boot_err" => options = None
        /\ pc = "boot_ok" =>
              /\ IsSome(options)
              /\ Unwrap(options).options.api_key = Unwrap(pg.api_key)
              /\ IsNone(pg.client_version) =>
                    Unwrap(options).options.client_version = "2.20230801.08.00"
              /\ pg.client_version = Some("2.2024") =>
                    Unwrap(options).options.client_version = "2.2024"

\* A stream page without a client version gave parameters with the default
\* version.
C15_Witness ==
    /\ pc = "boot_ok"
    /\ IsNone(Unwrap(page_contents).client_version)
    /\ Unwrap(options).options.client_version = "2.20230801.08.00"

C13_Inv == why = "dropped" => (~subscribed /\ inflight = 0)

C13_Step ==
    why = "dropped" =>
        /\ fetches' = fetches
        /\ sent' = sent
        /\ topic' = topic
        /\ out' = out

C18_LockNeverHeld ==
    /\ IsSome(processor) => ~Unwrap(processor).locked
    /\ why # "WouldBlock"

\* Messages of a second page are being dequeued, after several calls of next.
C18_Witness == pc = "drain" /\ pageNo >= 2 /\ popped >= 1 /\ Len(out) >= 2

\* The page on which a topic unwrap failed carries a timed continuation.
AbortedOnTimedPage ==
    IF IsSome(response)
    THEN IsSome(Cont0(Unwrap(response)).timed_continuation_data)
    ELSE IsSome(processor) /\ IsSome(Unwrap(processor).continuation_token)

\* C20: a live session never aborts on a missing push topic, neither when
\* opening the subscription nor when refreshing it, on a page that carries a
\* timed continuation.
C20_TimedOnlySurvives ==
    (live /\ pc = "aborted" /\ why = "NoTopic") => ~AbortedOnTimedPage

====
